---- MODULE Spec2Model ----
(***************************************************************************)
(* A model of stat_arb_model.py: the statistical-arbitrage pipeline        *)
(* (signal normalisation, alpha sub-signals, position bounds, the daily    *)
(* rebalancing loop and the backtest).                                     *)
(*                                                                         *)
(* Numbers.  Dollar amounts are integers that are multiples of Pct, so     *)
(* that the program's "0.01 * sum" is an exact integer.  Normalised        *)
(* signals are fixed-point integers with FP units per 1.0.  Ratios of      *)
(* prices are kept as exact fractions <<numerator, denominator>>.          *)
(***************************************************************************)
EXTENDS Integers, Sequences, FiniteSets, TLC

VARIABLES
    \* ---- max_size called on its own
    ms_pc,          \* "call" before the call of max_size, "done" after it
    ms_w,           \* the argument w of max_size
    ms_out,         \* the pair (gamma, delta) the call returned
    \* ---- trade_model: the rebalancing loop
    state,          \* NotStarted, Running, Completed or Failed
    err,            \* the exception that ended the loop, "" if none
    t,              \* the loop variable t
    beta,           \* beta_model(px_close), computed once
    port_t1,        \* the previous day's portfolio
    port_full,      \* the preallocated array of all days' portfolios
    port_full_pd,   \* the data frame of port_full, <<>> while unbound
    gamma_t,        \* lower bounds of the last quadratic program
    delta_t,        \* upper bounds of the last quadratic program
    status,         \* sol['status'] of the last solve, "" before the first
    returned,       \* what trade_model returned, <<>> if it has not returned
    \* ---- windsorize called on its own
    w_pc,           \* "call", then "returned" or "raised" (AssertionError)
    w_raw,          \* the argument raw, in fixed point
    w_out,          \* the local out when the function ended
    \* ---- alpha_model called on its own
    a_pc,           \* "call", then "returned" or "raised" (AssertionError)
    a_t,            \* the argument t
    px_close,       \* close prices, row (day) 0 .. m-1 by asset
    px_vol,         \* volumes, likewise
    bk2mkt,         \* book-to-market ratios, likewise
    ret,            \* alpha_mom_str's local ret, a fraction per asset
    avg_vol,        \* alpha_vol_wk's local avg_vol, a fraction per asset
    a_mom,          \* alpha_model's a_mom, a_vol and a_b2m, in fixed point
    a_vol,
    a_b2m,
    alpha,          \* the series alpha_model returned, in fixed point
    \* ---- backtest
    bt_pc,          \* "call", then "returned" or "raised" (NameError)
    bt_px,          \* the argument px_close
    bt_port_full,   \* the argument port_full: date -> positions
    g_bound,        \* whether the module global port_full_pd is bound
    g_port_full_pd, \* the module global port_full_pd: date -> positions
    pnl_cum         \* the series backtest returned: date -> cumulative P&L

\* ------------------------------------------------------------------------
\* Program constants
\* ------------------------------------------------------------------------
MaxTrade == 150000      \* theta of an all-zero portfolio
PiMult == 10            \* pi = 10 * theta
Pct == 100              \* 0.01 = 1 / Pct
ti == 250               \* the first day of the loop
Tol == 1                \* the 0.01 of the beta test, in units of 1 / Pct
Clip == 3               \* values beyond +-3 are set to +-3
WTol == 100             \* the 0.01 of windsorize's tests is 1 / WTol
WindsorN == 10          \* the n every caller passes to windsorize
Lookback == 250         \* px_close.iloc[t-250:t]
VolLookback == 5        \* px_vol.iloc[t-5:t]
WkFrom == 5             \* data_period.iloc[-5:-1]
WkTo == 1
NWts == 3               \* sum(wts), wts = [1,1,1]

\* ------------------------------------------------------------------------
\* Bounds of the model
\* ------------------------------------------------------------------------
MaxLen == 3             \* longest position vector handed to max_size alone
NAssets == 3            \* n, the columns of px_close in the loop
NDays == 2              \* m - ti, the days the loop runs over
FP == 1000              \* fixed-point units per 1.0 of a normalised signal
WMaxN == 12             \* longest vector handed to windsorize alone
WMaxVal == 2            \* its entries are 0 .. WMaxVal
BTDays == 2             \* the dates a portfolio history of backtest can hold
BTAssets == 2           \* the columns of backtest's frames

m == ti + NDays         \* the rows of px_close
Assets == 1..NAssets
Zeros == [i \in Assets |-> 0]

\* ------------------------------------------------------------------------
\* Vector helpers (numpy / builtins)
\* ------------------------------------------------------------------------
Abs(x) == IF x < 0 THEN -x ELSE x
Min(a, b) == IF a <= b THEN a ELSE b
Max(a, b) == IF a >= b THEN a ELSE b

RECURSIVE SumSeq(_)
SumSeq(s) == IF s = <<>> THEN 0 ELSE Head(s) + SumSeq(Tail(s))

\* sum([abs(i) for i in w])
SumAbs(w) == SumSeq([i \in DOMAIN w |-> Abs(w[i])])
\* sum(np.array(w)[np.array(w) > 0])
SumPos(w) == SumSeq([i \in DOMAIN w |-> IF w[i] > 0 THEN w[i] ELSE 0])
\* np.dot
Dot(a, b) == SumSeq([i \in DOMAIN a |-> a[i] * b[i]])

\* ------------------------------------------------------------------------
\* max_size: the trade cap theta, the position cap pi and the bounds
\* ------------------------------------------------------------------------
theta_of(w) ==
    IF SumAbs(w) = 0 THEN MaxTrade
    ELSE Min(MaxTrade, SumAbs(w) \div Pct)

pi_of_gross(w) ==
    IF SumAbs(w) = 0 THEN PiMult * theta_of(w)
    ELSE Min(PiMult * theta_of(w), SumAbs(w))

pi_of(w) ==
    IF SumAbs(w) = 0 THEN PiMult * theta_of(w)
    ELSE Min(PiMult * theta_of(w), SumPos(w))

max_size(w) ==
    [gamma |-> [i \in DOMAIN w |-> Max(w[i] - theta_of(w), -pi_of(w))],
     delta |-> [i \in DOMAIN w |-> Min(w[i] + theta_of(w), pi_of(w))]]

\* The prior positions max_size is applied to: zero, small, at the first
\* day's bound, and large enough for 1% of the gross to exceed MaxTrade.
SizeVals == {-8000000, -150000, -1000, 0, 1000, 150000, 8000000}
SizeVecs == UNION {[1..n -> SizeVals] : n \in 1..MaxLen}

\* ------------------------------------------------------------------------
\* windsorize.  A series is [nan, v]: nan says every entry is NaN (the
\* result of dividing by a zero or undefined standard deviation).
\* ------------------------------------------------------------------------
\* a / b rounded to the nearest integer, b > 0
RoundDiv(a, b) == (2 * a + b) \div (2 * b)

RECURSIVE SqrtBetween(_, _, _)
SqrtBetween(x, lo, hi) ==
    IF hi - lo <= 1 THEN (IF (2 * lo + 1) * (2 * lo + 1) < 4 * x THEN hi ELSE lo)
    ELSE LET mid == (lo + hi) \div 2
         IN IF mid * mid <= x THEN SqrtBetween(x, mid, hi) ELSE SqrtBetween(x, lo, mid)

\* the square root of x >= 0, rounded to the nearest integer
Sqrt(x) == IF x = 0 THEN 0 ELSE SqrtBetween(x, 0, 46340)

\* Series.mean()
Mean(v) == RoundDiv(SumSeq(v), Len(v))
\* Series.std(): the sample standard deviation (ddof = 1); -1 stands for
\* the NaN of a series of one element.
Std(v) ==
    IF Len(v) < 2 THEN -1
    ELSE Sqrt(RoundDiv(SumSeq([i \in DOMAIN v |-> (v[i] - Mean(v)) * (v[i] - Mean(v))]),
                       Len(v) - 1))
\* max(abs(out))
MaxAbs(v) == CHOOSE x \in {Abs(v[i]) : i \in DOMAIN v} :
                 \A j \in DOMAIN v : Abs(v[j]) <= x

\* out = (out - out.mean()) / out.std()
Standardize(s) ==
    IF s.nan \/ Std(s.v) <= 0 THEN [nan |-> TRUE, v |-> s.v]
    ELSE [nan |-> FALSE,
          v |-> [i \in DOMAIN s.v |-> RoundDiv((s.v[i] - Mean(s.v)) * FP, Std(s.v))]]

\* out[abs(out) > 3] = 3 * out[abs(out) > 3] / abs(out[abs(out) > 3])
ClipSeries(s) ==
    [nan |-> s.nan,
     v |-> [i \in DOMAIN s.v |->
              IF s.v[i] > Clip * FP THEN Clip * FP
              ELSE IF s.v[i] < -Clip * FP THEN -Clip * FP
              ELSE s.v[i]]]

\* the while loop: n rounds of standardise, then clip
RECURSIVE WindsorLoop(_, _)
WindsorLoop(s, n) ==
    IF n = 0 THEN s ELSE WindsorLoop(ClipSeries(Standardize(s)), n - 1)

\* the tests with only the last assertion left
TestsMaxOnly(s) ==
    /\ ~s.nan
    /\ WTol * (MaxAbs(s.v) - Clip * FP) < FP

\* the three assertions; every comparison with NaN is false
Tests(s) ==
    /\ ~s.nan
    /\ WTol * Abs(Mean(s.v)) < FP
    /\ WTol * Abs(Std(s.v) - FP) < FP
    /\ WTol * (MaxAbs(s.v) - Clip * FP) < FP

\* windsorize(raw, n): the series out and whether the function returned it
windsorize(raw, n) ==
    LET out == WindsorLoop([nan |-> FALSE, v |-> raw], n)
    IN [ok |-> Tests(out), out |-> out]

NoSeries == [nan |-> FALSE, v |-> <<>>]

RECURSIVE Rep(_, _)
Rep(x, k) == IF k = 0 THEN <<>> ELSE <<x>> \o Rep(x, k - 1)
RECURSIVE Spread(_, _)
\* the non-decreasing vector with c[x] entries equal to x * FP, x = 0 .. top
Spread(c, top) ==
    IF top < 0 THEN <<>> ELSE Spread(c, top - 1) \o Rep(top * FP, c[top])

\* The cross-sections windsorize is applied to, up to the order of the
\* assets (which no step of windsorize depends on).
RawVecs ==
    {Spread(c, WMaxVal) : c \in {c \in [0..WMaxVal -> 0..WMaxN] :
        SumSeq([x \in 1..(WMaxVal + 1) |-> c[x - 1]]) \in 1..WMaxN}}

varsW == <<w_pc, w_raw, w_out>>
IdleW == w_pc = "idle" /\ w_raw = <<>> /\ w_out = NoSeries

\* ------------------------------------------------------------------------
\* Data frames: a function from the row number 0 .. rows-1 to a row, which
\* is a sequence over the assets.  Fractions are pairs <<num, den>>.
\* ------------------------------------------------------------------------
Rows(df) == Cardinality(DOMAIN df)
\* df.iloc[a:b, :] for 0 <= a <= b <= Rows(df)
ILocSlice(df, a, b) == [k \in 0..(b - a - 1) |-> df[a + k]]
\* df.iloc[-i, :] and the bound -i of a slice
FromEnd(df, i) == Max(Rows(df) - i, 0)
\* a fraction as a fixed-point number
ToFP(q) == RoundDiv(q[1] * FP, q[2])
FracEq(p, q) == p[1] * q[2] = q[1] * p[2]

\* alpha_mom_str: ret = data_period.iloc[0,:] / data_period.iloc[-1,:] - 1
MomRaw(data_period) ==
    LET first == data_period[0]
        last == data_period[FromEnd(data_period, 1)]
    IN [a \in DOMAIN first |-> <<first[a] - last[a], last[a]>>]

\* alpha_vol_wk: data_1wk = data_period.iloc[-5:-1,:]; data_1wk.mean(axis = 0)
VolRaw(data_period) ==
    LET data_1wk == ILocSlice(data_period, FromEnd(data_period, WkFrom),
                              FromEnd(data_period, WkTo))
    IN [a \in DOMAIN data_period[0] |->
          <<SumSeq([k \in 1..Rows(data_1wk) |-> data_1wk[k - 1][a]]), Rows(data_1wk)>>]

\* alpha_b2m: the series handed to windsorize is -data_period
B2mRaw(row) == [a \in DOMAIN row |-> (-row[a]) * FP]

\* alphas = pd.concat([a_mom, a_vol, a_b2m], axis = 1) * wts / sum(wts),
\* wts = [1,1,1]; alphas.sum(axis = 1)
Aggregate(x, y, z) == [a \in DOMAIN x |-> RoundDiv(x[a] + y[a] + z[a], NWts)]

varsA == <<a_pc, a_t, px_close, px_vol, bk2mkt, ret, avg_vol, a_mom, a_vol, a_b2m, alpha>>
IdleA ==
    /\ a_pc = "idle" /\ a_t = 0 /\ px_close = <<>> /\ px_vol = <<>> /\ bk2mkt = <<>>
    /\ ret = <<>> /\ avg_vol = <<>> /\ alpha = <<>>
    /\ a_mom = <<>> /\ a_vol = <<>> /\ a_b2m = <<>>

varsMS == <<ms_pc, ms_w, ms_out>>
varsTM == <<state, err, t, beta, port_t1, port_full, port_full_pd,
            gamma_t, delta_t, status, returned>>
varsBT == <<bt_pc, bt_px, bt_port_full, g_bound, g_port_full_pd, pnl_cum>>
vars == <<varsMS, varsTM, varsW, varsA, varsBT>>
othersMS == <<varsTM, varsW, varsA, varsBT>>
othersTM == <<varsMS, varsW, varsA, varsBT>>
othersW == <<varsMS, varsTM, varsA, varsBT>>
othersA == <<varsMS, varsTM, varsW, varsBT>>
othersBT == <<varsMS, varsTM, varsW, varsA>>


NoBounds == [gamma |-> <<>>, delta |-> <<>>]

IdleMS == ms_pc = "idle" /\ ms_w = <<>> /\ ms_out = NoBounds
IdleTM ==
    /\ state = "Idle" /\ err = "" /\ t = 0 /\ beta = <<>> /\ port_t1 = <<>>
    /\ port_full = <<>> /\ port_full_pd = <<>> /\ gamma_t = <<>>
    /\ delta_t = <<>> /\ status = "" /\ returned = <<>>

IdleBT ==
    /\ bt_pc = "idle" /\ bt_px = <<>> /\ bt_port_full = <<>> /\ g_bound = FALSE
    /\ g_port_full_pd = <<>> /\ pnl_cum = <<>>

\* ------------------------------------------------------------------------
\* SpecMS: max_size applied to one prior position vector
\* ------------------------------------------------------------------------
InitMS ==
    /\ ms_pc = "call" /\ ms_w \in SizeVecs /\ ms_out = NoBounds
    /\ IdleTM /\ IdleW /\ IdleA /\ IdleBT

CallMaxSize ==
    /\ ms_pc = "call"
    /\ ms_out' = max_size(ms_w)
    /\ ms_pc' = "done"
    /\ UNCHANGED <<ms_w, othersMS>>

NextMS == CallMaxSize

SpecMS == InitMS /\ [][NextMS]_vars

\* C1: for every prior position vector, the bounds max_size returns satisfy
\* gamma[i] <= delta[i] for every asset i.
C1_GammaLeDelta ==
    ms_pc = "done" => \A i \in DOMAIN ms_w : ms_out.gamma[i] <= ms_out.delta[i]

\* C6: max_size(w_prev) equals the reference constraint builder with
\* C1 = 150000: theta = C1 and pi = 10 C1 for an all-zero w_prev, otherwise
\* theta = min(C1, 1% of sum |w_prev|) and pi = min(10 theta, sum of the
\* positive entries); gamma = max(w_prev - theta, -pi) and delta =
\* min(w_prev + theta, pi) elementwise; an all-zero prior gives -150000 and
\* 150000 in every component.
C6_MatchesReference ==
    ms_pc = "done" =>
        LET w == ms_w
            allZero == \A i \in DOMAIN w : w[i] = 0
            gross == SumSeq([i \in DOMAIN w |-> IF w[i] < 0 THEN -w[i] ELSE w[i]])
            long == SumSeq([i \in DOMAIN w |-> IF w[i] > 0 THEN w[i] ELSE 0])
            onePct == gross \div 100
            refTheta == IF allZero THEN 150000
                        ELSE IF onePct < 150000 THEN onePct ELSE 150000
            refPi == IF allZero THEN 1500000
                     ELSE IF 10 * refTheta < long THEN 10 * refTheta ELSE long
        IN /\ DOMAIN ms_out.gamma = DOMAIN w
           /\ DOMAIN ms_out.delta = DOMAIN w
           /\ \A i \in DOMAIN w :
                /\ ms_out.gamma[i] =
                     (IF w[i] - refTheta > -refPi THEN w[i] - refTheta ELSE -refPi)
                /\ ms_out.delta[i] =
                     (IF w[i] + refTheta < refPi THEN w[i] + refTheta ELSE refPi)
           /\ allZero => \A i \in DOMAIN w :
                ms_out.gamma[i] = -150000 /\ ms_out.delta[i] = 150000

\* A mixed-sign prior whose 1% of gross exceeds the cap and whose lower
\* bound is cut at -pi has been through max_size.
C6_Witness ==
    /\ ms_pc = "done"
    /\ SumAbs(ms_w) \div Pct > MaxTrade
    /\ \E i, j \in DOMAIN ms_w :
         /\ ms_w[i] > 0 /\ ms_w[j] < 0
         /\ ms_out.gamma[j] = -PiMult * MaxTrade
         /\ ms_out.gamma[j] > ms_w[j] - MaxTrade

\* ------------------------------------------------------------------------
\* SpecW: windsorize applied to one cross-section
\* ------------------------------------------------------------------------
InitW ==
    /\ w_pc = "call" /\ w_raw \in RawVecs /\ w_out = NoSeries
    /\ IdleMS /\ IdleTM /\ IdleA /\ IdleBT

CallWindsorize ==
    /\ w_pc = "call"
    /\ w_out' = windsorize(w_raw, WindsorN).out
    /\ w_pc' = IF windsorize(w_raw, WindsorN).ok THEN "returned" ELSE "raised"
    /\ UNCHANGED <<w_raw, othersW>>

NextW == CallWindsorize

SpecW == InitW /\ [][NextW]_vars

\* C10 as stated: windsorize returns only an output with |mean| < 0.01,
\* |std - 1| < 0.01 and 2.99 < max|value| < 3.01.
C10_ReturnsOnlyNearThree ==
    w_pc = "returned" =>
        /\ ~w_out.nan
        /\ WTol * Abs(Mean(w_out.v)) < FP
        /\ WTol * Abs(Std(w_out.v) - FP) < FP
        /\ WTol * Abs(MaxAbs(w_out.v) - Clip * FP) < FP

\* C10 as amended: windsorize returns exactly when its output is not NaN
\* and has |mean| < 0.01, |std - 1| < 0.01 and max|value| < 3.01 (no lower
\* limit on the largest value); otherwise it raises.
C10_ReturnsIffTestsHold ==
    w_pc \in {"returned", "raised"} =>
        (w_pc = "returned" <=>
            /\ ~w_out.nan
            /\ WTol * Abs(Mean(w_out.v)) < FP
            /\ WTol * Abs(Std(w_out.v) - FP) < FP
            /\ WTol * MaxAbs(w_out.v) < WTol * Clip * FP + FP)

\* An output whose largest value is well below 3 has been returned.
C10_Witness ==
    /\ w_pc = "returned"
    /\ MaxAbs(w_out.v) < 2 * FP

\* ------------------------------------------------------------------------
\* SpecA: alpha_model(t, px_close, px_vol, bk2mkt) for one day t
\* ------------------------------------------------------------------------
\* The data: per-asset base series, with one entry of the price frame and
\* one of the volume frame raised (the dates around both ends of the
\* lookbacks), and the volumes either distinct or equal across the assets.
Days == 0..(m - 1)
PxProbes == (0..NDays) \cup ((ti - 2)..(m - 1))
VolProbes == (ti - 6)..(m - 1)
Heights == {1, 2}
NoSpike == [day |-> -1, asset |-> 1, h |-> 0]
Spikes(probes) ==
    {NoSpike} \cup [day : probes, asset : Assets, h : Heights]
SpikeAt(sp, d, a) == IF sp.day = d /\ sp.asset = a THEN sp.h ELSE 0

PxData(sp) == [d \in Days |-> [a \in Assets |-> 10 + a * (d \div 100) + SpikeAt(sp, d, a)]]
VolData(sp, flat) ==
    [d \in Days |-> [a \in Assets |-> (IF flat THEN 1 ELSE a) + SpikeAt(sp, d, a)]]
B2mData == [d \in Days |-> [a \in Assets |-> a * (1 + (d % 2))]]

InitA ==
    /\ a_pc = "call" /\ a_t = 0 /\ ret = <<>> /\ avg_vol = <<>> /\ alpha = <<>>
    /\ a_mom = <<>> /\ a_vol = <<>> /\ a_b2m = <<>>
    /\ \E sp \in Spikes(PxProbes) : px_close = PxData(sp)
    /\ \E sp \in Spikes(VolProbes), flat \in BOOLEAN : px_vol = VolData(sp, flat)
    /\ bk2mkt = B2mData
    /\ IdleMS /\ IdleTM /\ IdleW /\ IdleBT

\* alpha_model(tt, ...), lines 67-69: the three sub-signals in turn, each
\* windsorized; an AssertionError of windsorize ends the call.
AlphaSignals(tt) ==
    LET mom == MomRaw(ILocSlice(px_close, tt - Lookback, tt))
        w_mom == windsorize([a \in Assets |-> ToFP(mom[a])], WindsorN)
        vol == VolRaw(ILocSlice(px_vol, tt - VolLookback, tt))
        w_vol == windsorize([a \in Assets |-> ToFP(vol[a])], WindsorN)
        w_b2m == windsorize(B2mRaw(bk2mkt[tt]), WindsorN)
    IN /\ a_pc = "call"
       /\ a_t' = tt
       /\ ret' = mom
       /\ a_mom' = IF w_mom.ok THEN w_mom.out.v ELSE <<>>
       /\ avg_vol' = IF w_mom.ok THEN vol ELSE <<>>
       /\ a_vol' = IF w_mom.ok /\ w_vol.ok THEN w_vol.out.v ELSE <<>>
       /\ a_b2m' = IF w_mom.ok /\ w_vol.ok /\ w_b2m.ok THEN w_b2m.out.v ELSE <<>>
       /\ a_pc' = IF w_mom.ok /\ w_vol.ok /\ w_b2m.ok THEN "aggregate" ELSE "raised"
       /\ UNCHANGED <<alpha, px_close, px_vol, bk2mkt, othersA>>

\* alpha_model, lines 72-76: the weighted sum of the three signals.
AlphaAggregate ==
    /\ a_pc = "aggregate"
    /\ alpha' = Aggregate(a_mom, a_vol, a_b2m)
    /\ a_pc' = "returned"
    /\ UNCHANGED <<a_t, ret, avg_vol, a_mom, a_vol, a_b2m,
                   px_close, px_vol, bk2mkt, othersA>>

NextA == (\E tt \in ti..(m - 1) : AlphaSignals(tt)) \/ AlphaAggregate

SpecA == InitA /\ [][NextA]_vars

\* C7: for every day t >= 250 and every asset the raw momentum sub-signal
\* of alpha_model(t, ...) is price[t-1] / price[t-250] - 1.
C7_MomentumIsLatestOverOldest ==
    a_pc \in {"aggregate", "returned", "raised"} =>
        \A a \in Assets :
            FracEq(ret[a], <<px_close[a_t - 1][a] - px_close[a_t - 250][a],
                             px_close[a_t - 250][a]>>)

\* C8: for every day t >= 250 and every asset the raw volume sub-signal of
\* alpha_model(t, ...) is the mean of the volumes of days t-4 .. t-1.
C8_VolumeWindowEndsAtTMinus1 ==
    (a_pc \in {"aggregate", "returned", "raised"} /\ Len(avg_vol) > 0) =>
        \A a \in Assets :
            FracEq(avg_vol[a],
                   <<px_vol[a_t - 4][a] + px_vol[a_t - 3][a]
                       + px_vol[a_t - 2][a] + px_vol[a_t - 1][a], 4>>)

\* ------------------------------------------------------------------------
\* SpecBT: backtest(px_close, port_full)
\* ------------------------------------------------------------------------
BTCols == 1..BTAssets
\* the price frames: rows 0 .. BTDays
BTPrices == [0..BTDays -> [BTCols -> {1, 2}]]
\* the portfolio histories: the dates k .. BTDays for a first date k >= 1
BTHistories == UNION {[k..BTDays -> [BTCols -> {0, 100}]] : k \in 1..BTDays}

\* eq.calc_return(px_close), indexed by px_close.index[1:]: the return of
\* each date over the date before, in fixed point
calc_return(px) ==
    [d \in 1..(Rows(px) - 1) |->
        [a \in DOMAIN px[d] |-> RoundDiv((px[d][a] - px[d - 1][a]) * FP, px[d - 1][a])]]

\* pnl[t] = np.dot(ret_full.loc[t], port_full_pd.loc[t]) for t in
\* port_full_pd.index, then pnl.cumsum(): the frame read is the module
\* global port_full_pd, whatever the argument port_full is
CumPnl(px, pf) ==
    [d \in DOMAIN pf |->
        SumSeq([k \in 1..d |-> IF k \in DOMAIN pf THEN Dot(calc_return(px)[k], pf[k]) ELSE 0])]

InitBT ==
    /\ bt_pc = "call" /\ bt_px \in BTPrices /\ bt_port_full = <<>> /\ pnl_cum = <<>>
    /\ \/ g_bound = FALSE /\ g_port_full_pd = <<>>
       \/ g_bound = TRUE /\ g_port_full_pd \in BTHistories
    /\ IdleMS /\ IdleTM /\ IdleW /\ IdleA

\* backtest(bt_px, pf), lines 201-215
Backtest(pf) ==
    /\ bt_pc = "call"
    /\ bt_port_full' = pf
    /\ IF g_bound
       THEN /\ pnl_cum' = CumPnl(bt_px, g_port_full_pd)
            /\ bt_pc' = "returned"
       ELSE /\ pnl_cum' = <<>>
            /\ bt_pc' = "raised"
    /\ UNCHANGED <<bt_px, g_bound, g_port_full_pd, othersBT>>

\* Lines 233-236: the script hands its own global to backtest.
MainBacktest == g_bound /\ Backtest(g_port_full_pd)

\* Any other call of backtest, of the imported module or after a run.
CallBacktest == \E pf \in BTHistories : Backtest(pf)

NextBT == MainBacktest \/ CallBacktest

SpecBT == InitBT /\ [][NextBT]_vars

\* C9: backtest(px_close, port_full) returns a cumulative P&L series with
\* one entry per date of its argument port_full, the entry at date t being
\* the running sum up to t of dot(port_full row, realized return row); the
\* two arguments alone determine it.
C9_PnlOfArgument ==
    bt_pc \in {"returned", "raised"} =>
        /\ bt_pc = "returned"
        /\ DOMAIN pnl_cum = DOMAIN bt_port_full
        /\ \A d \in DOMAIN bt_port_full :
              pnl_cum[d] =
                SumSeq([k \in 1..d |->
                    IF k \in DOMAIN bt_port_full
                    THEN Dot(calc_return(bt_px)[k], bt_port_full[k]) ELSE 0])

\* ------------------------------------------------------------------------
\* Spec: trade_model, the rebalancing loop over days ti .. m-1
\* ------------------------------------------------------------------------

\* The regression slopes beta_model can return, and the positions the
\* solver can return (a grid inside the first day's box).  alpha_t and
\* sigma only select which point of the feasible set is optimal, so the
\* solution is any feasible grid point.
BetaVals == {1, 2}
BetaVecs == [Assets -> BetaVals]
Grid == {-150000, -1000, 0, 1000, 150000}
GridVecs == [Assets -> Grid]

\* The feasible set of the day's program: G x <= h and A x = b.
Feasible(g, d, b) ==
    {x \in GridVecs : (\A i \in Assets : g[i] <= x[i] /\ x[i] <= d[i]) /\ Dot(x, b) = 0}

\* Whether the program has a real solution at all: the box is not empty
\* and the hyperplane b.x = 0 meets it.
ProgramFeasible(g, d, b) ==
    /\ \A i \in Assets : g[i] <= d[i]
    /\ SumSeq([i \in Assets |-> Min(b[i] * g[i], b[i] * d[i])]) <= 0
    /\ SumSeq([i \in Assets |-> Max(b[i] * g[i], b[i] * d[i])]) >= 0

\* assert np.dot(port_t.flatten(), beta) < 0.01
BetaTest(x, b) == Pct * Dot(x, b) < Tol

Init ==
    /\ state = "NotStarted" /\ err = "" /\ t = 0 /\ beta = <<>> /\ port_t1 = <<>>
    /\ port_full = <<>> /\ port_full_pd = <<>> /\ gamma_t = <<>>
    /\ delta_t = <<>> /\ status = "" /\ returned = <<>>
    /\ IdleMS /\ IdleW /\ IdleA /\ IdleBT

\* Lines 169-179: the risk model (any beta the regression can give; the
\* eigenvalue test of sigma_model passing) and the zero start.
Start ==
    /\ state = "NotStarted"
    /\ state' = "Running"
    /\ t' = ti
    /\ beta' \in BetaVecs
    /\ port_full' = [k \in 1..NDays |-> Zeros]
    /\ port_t1' = Zeros
    /\ UNCHANGED <<err, port_full_pd, gamma_t, delta_t, status, returned, othersTM>>

\* Lines 185-196 with port_t = x: the row is written, then tested.
Record(x, st) ==
    /\ gamma_t' = max_size(port_t1).gamma
    /\ delta_t' = max_size(port_t1).delta
    /\ status' = st
    /\ port_full' = [port_full EXCEPT ![t - ti + 1] = x]
    /\ IF BetaTest(x, beta)
       THEN /\ port_t1' = x
            /\ port_full_pd' = port_full'
            /\ t' = t + 1
            /\ UNCHANGED <<state, err>>
       ELSE /\ state' = "Failed"
            /\ err' = "AssertionError"
            /\ UNCHANGED <<port_t1, port_full_pd, t>>
    /\ UNCHANGED <<beta, returned, othersTM>>

\* One iteration whose program has a solution: qp returns it.
StepOptimal ==
    /\ state = "Running" /\ t < m
    /\ ProgramFeasible(max_size(port_t1).gamma, max_size(port_t1).delta, beta)
    /\ \E x \in Feasible(max_size(port_t1).gamma, max_size(port_t1).delta, beta) :
          Record(x, "optimal")

\* One iteration whose program has no solution: qp returns its last
\* iterate with status "unknown", and optimize_port returns it unread.
StepUnknown ==
    /\ state = "Running" /\ t < m
    /\ ~ProgramFeasible(max_size(port_t1).gamma, max_size(port_t1).delta, beta)
    /\ \E x \in GridVecs : Record(x, "unknown")

\* One iteration in which qp raises (a singular KKT system).
StepRaises ==
    /\ state = "Running" /\ t < m
    /\ ~ProgramFeasible(max_size(port_t1).gamma, max_size(port_t1).delta, beta)
    /\ state' = "Failed"
    /\ err' = "ArithmeticError"
    /\ gamma_t' = max_size(port_t1).gamma
    /\ delta_t' = max_size(port_t1).delta
    /\ status' = "raised"
    /\ UNCHANGED <<t, beta, port_t1, port_full, port_full_pd, returned, othersTM>>

\* Line 198: return port_full_pd.
Return ==
    /\ state = "Running" /\ t = m
    /\ state' = "Completed"
    /\ returned' = port_full_pd
    /\ UNCHANGED <<err, t, beta, port_t1, port_full, port_full_pd,
                   gamma_t, delta_t, status, othersTM>>

\* C2: for every day the loop processed without failing, the recorded
\* position lies within that day's bounds, gamma_t <= w_t <= delta_t, and
\* |beta . w_t| < 0.01.
C2_RecordedRowSound ==
    (state \in {"Running", "Completed"} /\ t > ti) =>
        LET w == port_full_pd[t - ti] IN
        /\ \A i \in Assets : gamma_t[i] <= w[i] /\ w[i] <= delta_t[i]
        /\ Pct * Abs(Dot(w, beta)) < Tol

\* C3: from the zero position the loop over a complete dataset never
\* fails, each day's program is feasible, and on completion the history
\* has exactly m - 250 rows, each with dollar-beta within 0.01 of zero.
C3_CompletesNeutral ==
    /\ state # "Failed"
    /\ (state = "Running" /\ t < m) =>
          ProgramFeasible(max_size(port_t1).gamma, max_size(port_t1).delta, beta)
    /\ state = "Completed" =>
          /\ Len(returned) = m - ti
          /\ \A k \in 1..Len(returned) : Pct * Abs(Dot(returned[k], beta)) < Tol

\* C4: a solve that ends in a failure status sends the loop to Failed at
\* that day; its vector is not taken as w_t or w_prev.
C4_SolverFailureHalts ==
    status \in {"unknown", "raised"} => state = "Failed"

\* C5: when the loop fails at day t, the result still holds the rows of
\* every day processed before t.
C5_PartialResultsKept ==
    (state = "Failed" /\ t > ti) =>
        /\ Len(returned) >= t - ti
        /\ \A k \in 1..(t - ti) : returned[k] = port_full[k]

Next == Start \/ StepOptimal \/ StepUnknown \/ StepRaises \/ Return

Spec == Init /\ [][Next]_vars

====
